---- MODULE Spec2Model ----
(***************************************************************************)
(* Speculative sampling (src/sampling.py): the token sampler, the          *)
(* autoregressive baseline, the residual distribution and the draft /      *)
(* verify loop of speculative_sampling, driven as generate() drives them   *)
(* (seed, speculative run, re-seed, autoregressive run).                   *)
(*                                                                         *)
(* Numbers.  A tensor entry is an extended rational <<n, d>>: d > 0 is the *)
(* finite value n/d in lowest terms, <<1,0>> is +inf, <<-1,0>> is -inf and  *)
(* <<0,0>> is NaN, with the IEEE rules torch follows for division by zero  *)
(* and for comparisons with NaN.  Rounding is not modelled: arithmetic on  *)
(* finite values is exact.  exp is modelled by its degree-2 Taylor         *)
(* polynomial 1 + x + x^2/2, which is positive, strictly increasing for    *)
(* x >= -1 and 1 at 0; exp(-inf) = 0.                                      *)
(*                                                                         *)
(* Positions are the 0-based indices of the Python code; a TLA+ sequence   *)
(* holding a tensor's axis is read at (index + 1).                         *)
(***************************************************************************)
EXTENDS Integers, Sequences, FiniteSets

\* ------------------------------------------------------------ bounds
\* largest max_len (number of new tokens asked for)
MaxNew == 2
\* largest gamma (lookahead)
MaxGamma == 2
\* the generator's outputs are the multiples u/Grid of 1/Grid in [0,1)
Grid == 4

\* ------------------------------------------------------------ numbers
NaN == <<0, 0>>
PosInf == <<1, 0>>
NegInf == <<-1, 0>>
Zero == <<0, 1>>
One == <<1, 1>>

\* F applied to the value of e, e worked out once
With(e, F(_)) == CHOOSE r \in {F(v) : v \in {e}} : TRUE

Abs(a) == IF a < 0 THEN -a ELSE a
Sgn(a) == IF a < 0 THEN -1 ELSE IF a > 0 THEN 1 ELSE 0

RECURSIVE GCD(_, _)
GCD(a, b) == IF b = 0 THEN a ELSE With(a % b, LAMBDA r : GCD(b, r))

\* the finite value n/d, d > 0, in lowest terms
Q(n, d) == With(GCD(Abs(n), d), LAMBDA g : <<n \div g, d \div g>>)

IsNaN(a) == a = NaN
IsFinite(a) == a[2] > 0

\* a / b as torch divides floats: x/0 is +-inf, 0/0 and inf/inf are NaN
RDiv(a, b) ==
    IF IsNaN(a) \/ IsNaN(b) THEN NaN
    ELSE IF ~IsFinite(a) THEN
        IF ~IsFinite(b) THEN NaN
        ELSE IF b[1] < 0 THEN <<-a[1], 0>> ELSE a
    ELSE IF ~IsFinite(b) THEN Zero
    ELSE IF b[1] = 0 THEN <<Sgn(a[1]), 0>>
    ELSE IF a[1] = 0 THEN Zero
    ELSE With(<<GCD(Abs(a[1]), Abs(b[1])), GCD(a[2], b[2])>>,
              LAMBDA g : Q(Sgn(b[1]) * (a[1] \div g[1]) * (b[2] \div g[2]),
                           (a[2] \div g[2]) * (Abs(b[1]) \div g[1])))

RNeg(a) == <<-a[1], a[2]>>

RAdd(a, b) ==
    IF IsNaN(a) \/ IsNaN(b) THEN NaN
    ELSE IF ~IsFinite(a) THEN (IF ~IsFinite(b) /\ b # a THEN NaN ELSE a)
    ELSE IF ~IsFinite(b) THEN b
    ELSE With((a[2] \div GCD(a[2], b[2])) * b[2],
              LAMBDA l : Q(a[1] * (l \div a[2]) + b[1] * (l \div b[2]), l))

RSub(a, b) == RAdd(a, RNeg(b))

\* a > b; every comparison with NaN is false
RGt(a, b) ==
    IF IsNaN(a) \/ IsNaN(b) \/ a = b THEN FALSE
    ELSE IF ~IsFinite(a) THEN a = PosInf
    ELSE IF ~IsFinite(b) THEN b = NegInf
    ELSE a[1] * b[2] > b[1] * a[2]

RLt(a, b) == RGt(b, a)

\* exp: 1 + x + x^2/2 on finite x, 0 at -inf
Exp(a) ==
    IF IsNaN(a) THEN NaN
    ELSE IF a = NegInf THEN Zero
    ELSE IF a = PosInf THEN PosInf
    ELSE Q(2 * a[2] * a[2] + 2 * a[1] * a[2] + a[1] * a[1], 2 * a[2] * a[2])

\* ------------------------------------------------------------ tensors
\* token ids; id 0 is the one sample() refuses
Vocab == {0, 1, 2}
VocabSize == Cardinality(Vocab)

\* one row of a (batch, seq, vocab) tensor is a tuple holding the value for
\* token id t at t + 1
At(row, t) == row[t + 1]

RECURSIVE Build(_, _)
Build(F(_), k) == IF k = 0 THEN <<>> ELSE Append(Build(F, k - 1), F(k - 1))

\* the row whose value for token id t is F(t)
MkRow(F(_)) == Build(F, VocabSize)

RECURSIVE SumUpTo(_, _)
SumUpTo(row, k) ==
    IF k = 0 THEN Zero ELSE With(SumUpTo(row, k - 1), LAMBDA s : RAdd(s, row[k]))

\* torch.sum(row, dim=1)
RowSum(row) == SumUpTo(row, Len(row))

HasNaN(row) == \E k \in 1..Len(row) : IsNaN(row[k])

\* row / s
DivRow(row, s) == MkRow(LAMBDA t : RDiv(At(row, t), s))

\* F.softmax over one row: exp(row) / sum(exp(row))
ExpRow(row) == MkRow(LAMBDA t : Exp(At(row, t)))
SoftmaxOfExp(w) == With(RowSum(w), LAMBDA s : DivRow(w, s))
softmax(row) == With(ExpRow(row), SoftmaxOfExp)

\* the orders torch.sort(row, descending=True) may return: every permutation
\* of the token ids along which the values do not increase (ties in any order)
SortOrders(row) ==
    {s \in [1..VocabSize -> Vocab] :
        /\ \A a, b \in 1..VocabSize : a # b => s[a] # s[b]
        /\ \A a, b \in 1..VocabSize : a < b => ~RLt(At(row, s[a]), At(row, s[b]))}

\* torch.topk(row, k)[0][-1]: the k-th largest value of the row
KthLargest(row, k) ==
    CHOOSE v \in {At(row, t) : t \in Vocab} :
        /\ Cardinality({t \in Vocab : RGt(At(row, t), v)}) < k
        /\ Cardinality({t \in Vocab : ~RLt(At(row, t), v)}) >= k

Min(a, b) == IF a < b THEN a ELSE b

\* logits[logits < v] = -inf
BelowToNegInf(row, v) ==
    MkRow(LAMBDA t : IF RLt(At(row, t), v) THEN NegInf ELSE At(row, t))

\* the top_k branch, lines 19-20 (a row holding NaN is left as it is:
\* sample() fails on it whatever the filter does)
TopK(row, top_k) ==
    IF HasNaN(row) THEN row
    ELSE With(KthLargest(row, Min(top_k, VocabSize)),
              LAMBDA v : BelowToNegInf(row, v))

RECURSIVE CumSum(_, _, _)
CumSum(probs, order, k) ==
    IF k = 0 THEN Zero
    ELSE With(CumSum(probs, order, k - 1), LAMBDA s : RAdd(s, At(probs, order[k])))

\* logits[indices_to_remove] = -inf
RemovedToNegInf(row, indices_to_remove) ==
    MkRow(LAMBDA t : IF t \in indices_to_remove THEN NegInf ELSE At(row, t))

\* lines 22-28 with the sort order `order`: the token at sorted place k > 1 is
\* removed when the cumulative probability up to place k-1 exceeds top_p; the
\* first place is always kept
IndicesToRemove(probs, top_p, order) ==
    {order[k] : k \in {m \in 2..VocabSize :
                          With(CumSum(probs, order, m - 1), LAMBDA c : RGt(c, top_p))}}

\* the top_p branch, lines 22-29
TopP(row, top_p, order) ==
    With(softmax(row), LAMBDA probs :
        With(IndicesToRemove(probs, top_p, order),
             LAMBDA indices_to_remove : RemovedToNegInf(row, indices_to_remove)))

top_k_top_p_filter(logits, top_k, top_p, order) ==
    With(IF top_k > 0 THEN TopK(logits, top_k) ELSE logits,
         LAMBDA a : IF RGt(top_p, Zero) THEN TopP(a, top_p, order) ELSE a)

\* logits / temperature
Scaled(logits, temperature) ==
    MkRow(LAMBDA t : RDiv(At(logits, t), <<temperature, 1>>))

\* the orders torch.sort may return inside the filter sample() applies: the
\* row it sorts is logits / temperature after the top_k branch; with
\* top_p = 0 nothing is sorted and the order is not read
FilterOrders(logits, temperature, top_k, top_p) ==
    IF RGt(top_p, Zero)
    THEN With(Scaled(logits, temperature),
              LAMBDA s : With(IF top_k > 0 THEN TopK(s, top_k) ELSE s, SortOrders))
    ELSE {[k \in 1..VocabSize |-> k - 1]}

\* torch.multinomial(probs, 1) on the generator output u/Grid: the first token
\* id whose cumulative probability exceeds u/Grid
multinomial(probs, u) ==
    With({t \in Vocab : With(SumUpTo(probs, t + 1), LAMBDA c : RGt(c, <<u, Grid>>))},
         LAMBDA hit : CHOOSE t \in hit : \A m \in hit : t <= m)

\* sample(), lines 43-45: the probabilities the token is drawn from
sample_probs(logits, temperature, top_k, top_p, order) ==
    With(Scaled(logits, temperature),
         LAMBDA s : With(top_k_top_p_filter(s, top_k, top_p, order), softmax))

\* a sampler without the check of lines 47-48
NeverRaises(idx) == FALSE

\* the check of lines 47-48 on the id drawn
RaisesOn(idx) == idx = 0

\* sample(), lines 46-49, on the generator output u: raised is the
\* RuntimeError of line 48, or the one torch.multinomial raises on
\* probabilities holding NaN; idx_next is the id drawn
sample_draw(probs, u) ==
    IF HasNaN(probs) THEN [raised |-> TRUE, drawn |-> FALSE, idx_next |-> -1]
    ELSE With(multinomial(probs, u),
              LAMBDA idx : [raised |-> RaisesOn(idx), drawn |-> TRUE, idx_next |-> idx])

sample(logits, temperature, top_k, top_p, order, u) ==
    With(sample_probs(logits, temperature, top_k, top_p, order),
         LAMBDA probs : sample_draw(probs, u))

\* no clamping of the negative entries
NoClamp(x) == x

\* torch.where(x > 0, x, torch.zeros_like(x))
Clamp(x) == MkRow(LAMBDA t : IF RGt(At(x, t), Zero) THEN At(x, t) ELSE Zero)

\* x_max / x_max_sum
DivBySum(x_max) == With(RowSum(x_max), LAMBDA x_max_sum : DivRow(x_max, x_max_sum))

\* max_fn: norm(max(x, 0))
max_fn(x) == With(Clamp(x), DivBySum)

\* p - q on rows
RowSub(p_row, q_row) == MkRow(LAMBDA t : RSub(At(p_row, t), At(q_row, t)))

\* norm_logits: softmax along the last dimension, at every position
norm_logits(t) == [k \in 1..Len(t) |-> softmax(t[k])]

\* ------------------------------------------------------------ oracles
\* the rows of logits an oracle may produce
Even == <<NegInf, Zero, Zero>>
Only2 == <<NegInf, NegInf, Zero>>
With0 == <<Zero, Zero, One>>

\* a model is deterministic and causal: its logits at a position are a
\* function of the token there (one row after token 2, one after the others)
Oracles == {[t \in Vocab |-> IF t = 2 THEN rr[2] ELSE rr[1]] :
               rr \in {<<Even, Even>>, <<Only2, Even>>, <<With0, Even>>}}

\* model(x).logits, shape (seq, vocab)
ModelLogits(model, x) == [k \in 1..Len(x) |-> model[x[k]]]

\* ------------------------------------------------------------ state
VARIABLES
    input_ids, approx_model, target_model, max_len, gamma,
    temperature, top_k, top_p,
    pc, raised,
    prefix, x, prefix_len, drafted, q, p, n, i, rs, idx_next, rounds,
    pending, tape, keep_rs,
    ar_x, ar_n, ar_raised,
    arg, ret

args == <<input_ids, approx_model, target_model, max_len, gamma,
          temperature, top_k, top_p>>
spec_vars == <<prefix, x, prefix_len, drafted, q, p, n, i, rs, rounds>>
rng_vars == <<pending, tape>>
hist_vars == <<keep_rs>>
ar_vars == <<ar_x, ar_n, ar_raised>>
unit_vars == <<arg, ret>>
vars == <<args, pc, raised, spec_vars, idx_next, rng_vars, hist_vars, ar_vars,
          unit_vars>>

\* the arguments the calls are made with
Prefixes == {<<1>>, <<0, 1>>}
MaxLens == 0..MaxNew
Gammas == 1..MaxGamma
\* <<temperature, top_k, top_p>>
SamplingParams == {<<1, 0, Zero>>, <<2, 0, Zero>>, <<1, 1, Zero>>, <<1, 0, <<1, 2>>>>}

\* prefix.shape[0], and len(x) of a (1, seq) tensor
Batch == 1

\* a total one token too long
TOneMore == Len(input_ids) + max_len + 1

\* seq_len + max_len
T == Len(input_ids) + max_len

\* len(x) + N in autoregressive_sampling: x is (batch, seq), len(x) is batch
ar_T == Batch + max_len

\* ------------------------------------------------------------ generator
\* torch's global generator gives the outputs u/Grid, u in 0..Grid-1, and
\* after the same seed the same outputs in the same order.  While a second
\* call on the same seed is pending, the outputs read are kept on tape; the
\* second call reads the kept outputs first, in order, then new ones.
Outputs == 0..(Grid - 1)

Draw(u) ==
    /\ u \in Outputs
    /\ IF pending
       THEN tape' = Append(tape, u)
       ELSE /\ tape # <<>> => u = Head(tape)
            /\ tape' = IF tape # <<>> THEN Tail(tape) ELSE tape
    /\ UNCHANGED pending

\* torch.rand(1) on the generator output u
Rand(u) == Q(u, Grid)

\* ------------------------------------------------------------ calls
Arguments ==
    /\ input_ids \in Prefixes
    /\ approx_model \in Oracles
    /\ target_model \in Oracles
    /\ max_len \in MaxLens
    /\ gamma \in Gammas
    /\ \E sp \in SamplingParams :
        /\ temperature = sp[1]
        /\ top_k = sp[2]
        /\ top_p = sp[3]
    /\ arg = <<>>
    /\ ret = <<>>

NoLocals ==
    /\ raised = "none"
    /\ x = <<>>
    /\ prefix_len = 0
    /\ drafted = 0
    /\ q = <<>>
    /\ p = <<>>
    /\ n = 0
    /\ i = 0
    /\ rs = <<>>
    /\ idx_next = -1
    /\ rounds = 0
    /\ tape = <<>>
    /\ ar_raised = "none"

\* autoregressive_sampling(input_ids, target_model, max_len, ...) at line 56
InitAR ==
    /\ pc = "ar_while"
    /\ ar_x = input_ids
    /\ ar_n = Batch
    /\ prefix = <<>>

\* speculative_sampling(input_ids, approx_model, target_model, max_len,
\* gamma, ...) at line 99
InitSpeculative ==
    /\ pc = "while"
    /\ prefix = input_ids
    /\ ar_x = <<>>
    /\ ar_n = 0

\* one call of either function
Init ==
    /\ Arguments
    /\ NoLocals
    /\ pending = FALSE
    /\ keep_rs = FALSE
    /\ InitAR \/ InitSpeculative

\* one call of speculative_sampling that makes one round, the draws of its
\* acceptance scan kept in rs
RoundInit ==
    /\ Arguments
    /\ max_len = 1
    /\ NoLocals
    /\ pending = FALSE
    /\ keep_rs = TRUE
    /\ InitSpeculative

\* generate(): torch.manual_seed(123) before each of the two calls.  The
\* calls share nothing but the seed, so their order does not change what
\* either returns; the autoregressive call runs first here, and the outputs
\* it reads are kept for the speculative call.
GenInit ==
    /\ Arguments
    /\ NoLocals
    /\ pending = TRUE
    /\ keep_rs = FALSE
    /\ InitAR

\* torch.cat((x, t), dim=1)
Cat(s, t) == Append(s, t)

\* lines 57-61: one token from the target model
ARStep ==
    /\ pc = "ar_while"
    /\ ar_n < ar_T
    /\ \E logits \in {ModelLogits(target_model, ar_x)} :
       \E last \in {logits[Len(logits)]} :
       \E order \in FilterOrders(last, temperature, top_k, top_p) :
       \E probs \in {sample_probs(last, temperature, top_k, top_p, order)} :
       \E u \in Outputs :
       \E s \in {sample_draw(probs, u)} :
          /\ Draw(u)
          /\ idx_next' = s.idx_next
          /\ IF s.raised
             THEN /\ pc' = "ar_error"
                  /\ ar_raised' = "RuntimeError"
                  /\ UNCHANGED <<ar_x, ar_n>>
             ELSE /\ ar_x' = Cat(ar_x, s.idx_next)
                  /\ ar_n' = ar_n + 1
                  /\ UNCHANGED <<pc, ar_raised>>
    /\ UNCHANGED <<args, raised, spec_vars, hist_vars, unit_vars>>

\* line 64: ar_x is returned
ARReturn ==
    /\ pc = "ar_while"
    /\ ~(ar_n < ar_T)
    /\ pc' = "ar_done"
    /\ UNCHANGED <<args, raised, spec_vars, idx_next, rng_vars, ar_vars, hist_vars,
                   unit_vars>>

\* ------------------------------------------------------------ speculative_sampling
\* a loop test that lets a round start at the full length
LoopCondInclusive(len, total) == len <= total

\* while prefix.shape[1] < T
LoopCond(len, total) == len < total

\* an acceptance test with the ratio upside down
RejectsInverted(r, p_j, q_j) == RGt(r, RDiv(q_j, p_j))

\* the acceptance test of line 123: the drafted token is rejected
Rejects(r, p_j, q_j) == RGt(r, RDiv(p_j, q_j))

\* a boundary that keeps the rejected token
BoundaryKeepsRejected(plen, k) == plen + k

\* n = prefix_len + i - 1
Boundary(plen, k) == plen + k - 1

\* a slice one token short, x[:, :n]
KeepOneLess(s, m) == SubSeq(s, 1, m)

\* x[:, :n + 1]
Keep(s, m) == SubSeq(s, 1, m + 1)

Raise(kind) ==
    /\ pc' = "error"
    /\ raised' = kind

\* generate(), lines 160-161 after the autoregressive call has ended: the
\* seed is set again and speculative_sampling is called
SpecStart ==
    /\ pending
    /\ pc \in {"ar_done", "ar_error"}
    /\ pending' = FALSE
    /\ prefix' = input_ids
    /\ pc' = "while"
    /\ UNCHANGED <<args, raised, x, prefix_len, drafted, q, p, n, i, rs, rounds,
                   idx_next, tape, ar_vars, hist_vars, unit_vars>>

\* lines 100-103: the loop test passes and a round starts.  q, p, n, i and
\* the draws of the last round are assigned again before the round reads
\* them, so the values they still hold are dropped here.
EnterRound ==
    /\ pc = "while"
    /\ LoopCond(Len(prefix), T)
    /\ x' = prefix
    /\ prefix_len' = Len(prefix)
    /\ drafted' = 0
    /\ q' = <<>>
    /\ p' = <<>>
    /\ n' = 0
    /\ i' = 0
    /\ rs' = <<>>
    /\ pc' = "draft"
    /\ UNCHANGED <<args, raised, prefix, rounds, idx_next, rng_vars, ar_vars,
                   hist_vars, unit_vars>>

\* lines 104-109: one iteration of the draft loop
DraftStep ==
    /\ pc = "draft"
    /\ \E logits \in {ModelLogits(approx_model, x)} :
       \E last \in {logits[Len(logits)]} :
       \E order \in FilterOrders(last, temperature, top_k, top_p) :
       \E probs \in {sample_probs(last, temperature, top_k, top_p, order)} :
       \E u \in Outputs :
       \E s \in {sample_draw(probs, u)} :
          /\ q' = logits
          /\ Draw(u)
          /\ idx_next' = s.idx_next
          /\ IF s.raised
             THEN /\ Raise("RuntimeError")
                  /\ UNCHANGED <<x, drafted>>
             ELSE /\ x' = Cat(x, s.idx_next)
                  /\ drafted' = drafted + 1
                  /\ pc' = IF drafted + 1 = gamma THEN "verify" ELSE "draft"
                  /\ UNCHANGED raised
    /\ UNCHANGED <<args, prefix, prefix_len, p, n, i, rs, rounds,
                   ar_vars, hist_vars, unit_vars>>

\* lines 111-117: normalise q, run the target model, start the scan
Verify ==
    /\ pc = "verify"
    /\ q' = norm_logits(q)
    /\ p' = norm_logits(ModelLogits(target_model, x))
    /\ n' = prefix_len + gamma - 1
    /\ i' = 0
    /\ rs' = <<>>
    /\ pc' = "accept"
    /\ UNCHANGED <<args, raised, prefix, x, prefix_len, drafted, rounds,
                   idx_next, rng_vars, ar_vars, hist_vars, unit_vars>>

\* lines 118-125: one iteration of the acceptance scan; i is its index, and
\* rs holds the draws r of the scan so far when keep_rs is set
AcceptStep ==
    /\ pc = "accept"
    /\ \E u \in Outputs :
        /\ Draw(u)
        /\ \E r \in {Rand(u)} :
           \E j \in {x[prefix_len + i + 1]} :
           \E rejected \in {Rejects(r, At(p[prefix_len + i], j), At(q[prefix_len + i], j))} :
              /\ rs' = IF keep_rs THEN Append(rs, r) ELSE rs
              /\ IF rejected
                 THEN /\ n' = Boundary(prefix_len, i)
                      /\ pc' = "truncate"
                      /\ UNCHANGED i
                 ELSE /\ i' = i + 1
                      /\ pc' = IF i + 1 = gamma THEN "truncate" ELSE "accept"
                      /\ UNCHANGED n
    /\ UNCHANGED <<args, raised, prefix, x, prefix_len, drafted, q, p, rounds,
                   idx_next, ar_vars, hist_vars, unit_vars>>

\* lines 129-130: the assertion, then prefix = x[:, :n + 1]
Truncate ==
    /\ pc = "truncate"
    /\ IF n >= prefix_len - 1
       THEN /\ prefix' = Keep(x, n)
            /\ pc' = "resample"
            /\ UNCHANGED raised
       ELSE /\ Raise("AssertionError")
            /\ UNCHANGED prefix
    /\ UNCHANGED <<args, x, prefix_len, drafted, q, p, n, i, rs, rounds,
                   idx_next, rng_vars, ar_vars, hist_vars, unit_vars>>

\* the logits handed to sample() at lines 135 and 141
NextLogits ==
    IF n < prefix_len + gamma - 1
    THEN max_fn(RowSub(p[n + 1], q[n + 1]))
    ELSE p[Len(p)]

\* lines 132-144: sample the token after the boundary and append it
Resample ==
    /\ pc = "resample"
    /\ IF ~(n < prefix_len + gamma - 1) /\ n # Len(p) - 1
       THEN /\ Raise("AssertionError")
            /\ UNCHANGED <<prefix, rounds, idx_next, rng_vars>>
       ELSE \E logits \in {NextLogits} :
               \E order \in FilterOrders(logits, temperature, top_k, top_p) :
               \E probs \in {sample_probs(logits, temperature, top_k, top_p, order)} :
               \E u \in Outputs :
               \E s \in {sample_draw(probs, u)} :
                  /\ Draw(u)
                  /\ idx_next' = s.idx_next
                  /\ IF s.raised
                     THEN /\ Raise("RuntimeError")
                          /\ UNCHANGED <<prefix, rounds>>
                     ELSE /\ prefix' = Cat(prefix, s.idx_next)
                          /\ rounds' = rounds + 1
                          /\ pc' = "while"
                          /\ UNCHANGED raised
    /\ UNCHANGED <<args, x, prefix_len, drafted, q, p, n, i, rs,
                   ar_vars, hist_vars, unit_vars>>

\* line 147: the loop test fails and prefix is returned; the locals of the
\* call end with it
SpecReturn ==
    /\ pc = "while"
    /\ ~LoopCond(Len(prefix), T)
    /\ pc' = "done"
    /\ x' = <<>>
    /\ q' = <<>>
    /\ p' = <<>>
    /\ n' = 0
    /\ i' = 0
    /\ rs' = <<>>
    /\ drafted' = 0
    /\ prefix_len' = 0
    /\ UNCHANGED <<args, raised, prefix, rounds, idx_next, rng_vars, ar_vars,
                   hist_vars, unit_vars>>

Next ==
    \/ ARStep
    \/ ARReturn
    \/ EnterRound
    \/ DraftStep
    \/ Verify
    \/ AcceptStep
    \/ Truncate
    \/ Resample
    \/ SpecReturn

Spec == Init /\ [][Next]_vars

GenNext ==
    \/ ARStep
    \/ ARReturn
    \/ SpecStart
    \/ EnterRound
    \/ DraftStep
    \/ Verify
    \/ AcceptStep
    \/ Truncate
    \/ Resample
    \/ SpecReturn

GenSpec == GenInit /\ [][GenNext]_vars

RoundNext ==
    \/ EnterRound
    \/ DraftStep
    \/ Verify
    \/ AcceptStep
    \/ Truncate
    \/ Resample
    \/ SpecReturn

RoundSpec == RoundInit /\ [][RoundNext]_vars

\* ------------------------------------------------------------ the functions alone
\* no call of the samplers in progress
Idle ==
    /\ input_ids = <<>>
    /\ approx_model = <<>>
    /\ target_model = <<>>
    /\ max_len = 0
    /\ gamma = 0
    /\ temperature = 1
    /\ top_k = 0
    /\ top_p = Zero
    /\ NoLocals
    /\ prefix = <<>>
    /\ ar_x = <<>>
    /\ ar_n = 0
    /\ pending = FALSE
    /\ keep_rs = FALSE
    /\ pc = "call"

\* the values a probability takes: the multiples of 1/Grid in [0, 1]
Probabilities == {Q(a, Grid) : a \in 0..Grid}

\* the rows that are probability distributions over the vocabulary
Distributions == {row \in [1..VocabSize -> Probabilities] : RowSum(row) = One}

\* the acceptance test of line 123 on a draw r and two probabilities
AcceptInit ==
    /\ Idle
    /\ arg \in {<<Rand(u), a, b>> : u \in Outputs, a \in Probabilities, b \in Probabilities}
    /\ ret = FALSE

AcceptCall ==
    /\ pc = "call"
    /\ ret' = Rejects(arg[1], arg[2], arg[3])
    /\ pc' = "returned"
    /\ UNCHANGED <<args, raised, spec_vars, idx_next, rng_vars, ar_vars, hist_vars, arg>>

AcceptSpec == AcceptInit /\ [][AcceptCall]_vars

\* max_fn(p - q) on two distributions p = arg[1] and q = arg[2]
MaxFnInit ==
    /\ Idle
    /\ arg \in Distributions \X Distributions
    /\ ret = <<>>

MaxFnCall ==
    /\ pc = "call"
    /\ ret' = max_fn(RowSub(arg[1], arg[2]))
    /\ pc' = "returned"
    /\ UNCHANGED <<args, raised, spec_vars, idx_next, rng_vars, ar_vars, hist_vars, arg>>

MaxFnSpec == MaxFnInit /\ [][MaxFnCall]_vars

\* the loop of speculative_sampling and of autoregressive_sampling runs on
\* one thread and every step it reaches is taken
FairSpec == Spec /\ WF_vars(Next)

\* ------------------------------------------------------------ properties
\* the token drafted at scan index k, and the probabilities the acceptance
\* test compares for it: position prefix_len + k - 1, token x[prefix_len + k]
Drafted(k) == x[prefix_len + k + 1]
TargetProb(k) == At(p[prefix_len + k], Drafted(k))
DraftProb(k) == At(q[prefix_len + k], Drafted(k))

\* the scan indices whose draw exceeds target / draft, by the draws in rs
Exceeding == {k \in 0..(Len(rs) - 1) : RGt(rs[k + 1], RDiv(TargetProb(k), DraftProb(k)))}
FirstExceeding == CHOOSE k \in Exceeding : \A m \in Exceeding : k <= m

\* the boundary worked out from the draws alone
BoundaryByHand ==
    IF Exceeding = {} THEN prefix_len + gamma - 1 ELSE prefix_len + FirstExceeding - 1

\* C1: once the scan of a round has ended, n is the boundary worked out by
\* hand from the draws: prefix_len + i* - 1 for the first index i* whose draw
\* exceeds target / draft, the scan having stopped at i*, and
\* prefix_len + gamma - 1 when all gamma draws were made and none exceeds;
\* the sequence is then cut to its first n + 1 tokens.
C1_BoundaryByHand ==
    /\ pc \in {"truncate", "resample"} =>
          /\ n = BoundaryByHand
          /\ Len(rs) = IF Exceeding = {} THEN gamma ELSE FirstExceeding + 1
    /\ pc = "resample" =>
          /\ Len(prefix) = n + 1
          /\ \A k \in 1..(n + 1) : prefix[k] = x[k]

\* a round whose scan accepted its first token and rejected a later one
C1_Witness ==
    /\ pc = "resample"
    /\ Exceeding # {}
    /\ FirstExceeding >= 1
    /\ n = prefix_len + FirstExceeding - 1

\* C2: a completed round leaves the sequence longer than it found it by at
\* least 1 and at most gamma + 1 tokens.
C2_RoundProgress ==
    (pc = "while" /\ rounds > 0) =>
        /\ Len(prefix) - prefix_len >= 1
        /\ Len(prefix) - prefix_len <= gamma + 1

\* a completed round that rejected its first token, and gamma above 1
C2_Witness ==
    /\ pc = "while"
    /\ rounds > 0
    /\ gamma > 1
    /\ Len(prefix) - prefix_len = 1

C4_SameAsAutoregressive ==
    (pc = "done" /\ ar_raised = "none" /\ approx_model = target_model) =>
        prefix = ar_x

\* C5 as stated: a first drafted token of target probability 0 and positive
\* draft probability is rejected whatever the draw, so n = prefix_len - 1.
C5_ZeroTargetAlwaysRejected ==
    (Len(rs) >= 1 /\ TargetProb(0) = Zero /\ RGt(DraftProb(0), Zero)) =>
        n = prefix_len - 1

\* C5 as amended: such a token is rejected, n = prefix_len - 1, for every
\* draw r > 0, and accepted on the draw r = 0.
C5_ZeroTargetRejectedUnlessZeroDraw ==
    (Len(rs) >= 1 /\ TargetProb(0) = Zero /\ RGt(DraftProb(0), Zero)) =>
        (n = prefix_len - 1) = RGt(rs[1], Zero)

\* a first drafted token of target probability 0 rejected on a positive draw
C5_Witness ==
    /\ pc = "resample"
    /\ Len(rs) >= 1
    /\ TargetProb(0) = Zero
    /\ RGt(DraftProb(0), Zero)
    /\ RGt(rs[1], Zero)
    /\ n = prefix_len - 1

\* C6: the acceptance test rejects a token whose draft probability is 0,
\* whatever the target probability and the draw.
C6_ZeroDraftRejected ==
    (pc = "returned" /\ arg[3] = Zero) => ret = TRUE

\* C7: an id 0 drawn by sample() ends the call with a RuntimeError and the
\* call takes no further step; no token the calls append is 0.
C7_ZeroNeverReturned ==
    /\ [](idx_next = 0 =>
            \/ pc = "error" /\ raised = "RuntimeError"
            \/ pc = "ar_error" /\ ar_raised = "RuntimeError")
    /\ [](/\ \A k \in (Len(input_ids) + 1)..Len(prefix) : prefix[k] # 0
          /\ \A k \in (Len(input_ids) + 1)..Len(x) : x[k] # 0
          /\ \A k \in (Len(input_ids) + 1)..Len(ar_x) : ar_x[k] # 0)
    /\ [][pc \notin {"error", "ar_error"}]_vars

\* a call of speculative_sampling ended by the draw of id 0
C7_Witness ==
    /\ pc = "error"
    /\ raised = "RuntimeError"
    /\ idx_next = 0
    /\ rounds >= 1

\* C8 as stated: max_fn(p - q) has no negative entry and sums to 1 for
\* every pair of distributions p, q.
C8_ResidualIsDistribution ==
    pc = "returned" =>
        /\ \A t \in Vocab : At(ret, t) = Zero \/ RGt(At(ret, t), Zero)
        /\ RowSum(ret) = One

\* C8 as amended: the same for every pair of distributions with p # q.
C8_ResidualIsDistributionUnlessEqual ==
    (pc = "returned" /\ arg[1] # arg[2]) =>
        /\ \A t \in Vocab : At(ret, t) = Zero \/ RGt(At(ret, t), Zero)
        /\ RowSum(ret) = One

\* a residual of two different distributions, one entry of it clamped
C8_Witness ==
    /\ pc = "returned"
    /\ arg[1] # arg[2]
    /\ \E t \in Vocab : RLt(At(arg[1], t), At(arg[2], t)) /\ At(ret, t) = Zero
    /\ RowSum(ret) = One

\* C9: after a rejection, with top_k = 0 and top_p = 0, the token appended
\* has positive residual probability: its target probability at position n
\* exceeds its draft probability there.
C9_ReplacementFromResidual ==
    (/\ pc = "while"
     /\ rounds > 0
     /\ n < prefix_len + gamma - 1
     /\ top_k = 0
     /\ top_p = Zero) =>
        RGt(At(p[n + 1], prefix[Len(prefix)]), At(q[n + 1], prefix[Len(prefix)]))

====
